---- MODULE Spec2Model ----
(***************************************************************************)
(* Model of streaming-udp-video (src/streaming-udp-video/receiver.cpp).    *)
(* The file holds three programs: the single-stream receiver (lines        *)
(* 1-295), the multi-stream receiver (lines 297-643) and the multi-stream  *)
(* sender (lines 645-1050).  The model covers the multi-stream receiver    *)
(* process, the multi-stream sender process and the UDP network between    *)
(* them.                                                                   *)
(*                                                                         *)
(* Environment assumptions (outside the source):                           *)
(*  - our_team.jpg is present and readable, so cv::imread returns a        *)
(*    non-empty picture;                                                   *)
(*  - cv::imdecode returns an empty cv::Mat for bytes that are not an      *)
(*    image; cv::imencode of an empty cv::Mat returns an empty buffer or   *)
(*    throws, and cv::resize of an empty cv::Mat throws;                   *)
(*  - a UDP datagram carries at most 65535 - 20 - 8 bytes of payload and   *)
(*    sendto() rejects anything larger with an error;                      *)
(*  - the network may lose, reorder and delay datagrams.                   *)
(***************************************************************************)
EXTENDS Integers, Sequences, FiniteSets, Bags, TLC

(***************************************************************************)
(* Bounds of the model.                                                    *)
(***************************************************************************)
\* datagrams that remote hosts put on the wire towards the receiver
MaxDatagrams == 2
\* distinct pictures the cameras deliver
MaxPix == 2
\* frames the cameras of the sender process deliver in all
MaxFrames == 2

(***************************************************************************)
(* Program constants.                                                      *)
(***************************************************************************)
kMaxPacketBufferSize == 65535
SOCKET_ERROR == -1
NumSessions == 3

Sessions == 1..NumSessions

\* receive(port, name) as started by main: receive1 4000, receive2 5000,
\* receive3 6000
ReceiverPort(s) == 3000 + 1000 * s

\* the initial value of kWindowName_id1..3
kWindowName == "Streaming Video"

\* kWindowName_idN + " " + std::to_string(N-1)
WindowNameFor(s) == kWindowName \o " " \o ToString(s - 1)

(***************************************************************************)
(* Pictures (cv::Mat) and byte buffers (std::vector<unsigned char>).       *)
(* A picture is empty, a camera/decoded frame or the picture read from     *)
(* our_team.jpg; `text' is the set of overlays burned into it.  A byte     *)
(* buffer has a length and a content: a JPEG encoding of a picture, bytes  *)
(* that are no picture, or nothing.                                        *)
(***************************************************************************)
EmptyMat == [kind |-> "empty", pix |-> 0, text |-> {}]

\* cv::imread("our_team.jpg")
OurTeamPicture == [kind |-> "file", pix |-> 0, text |-> {}]

CameraFrame(p, t) == [kind |-> "frame", pix |-> p, text |-> t]

EmptyBytes == [len |-> 0, fmt |-> "none", pix |-> 0, text |-> {}]

\* Encoded size of a picture: odd pictures compress to less than a
\* datagram, even pictures to more than kMaxPacketBufferSize.
JpegLen(m) == IF m.pix % 2 = 1 THEN 20000 + m.pix
                               ELSE kMaxPacketBufferSize + m.pix - 1

\* cv::imencode(".jpg", image, buffer, params)
imencode(m) == IF m.kind = "empty"
                 THEN EmptyBytes
                 ELSE [len |-> JpegLen(m), fmt |-> "jpg",
                       pix |-> m.pix, text |-> m.text]

\* Mutant: imdecode makes a picture out of any bytes it is given.
imdecode_AnyBytes(b) == IF b.len > 0
                          THEN [kind |-> "frame", pix |-> b.pix, text |-> b.text]
                          ELSE [kind |-> "empty", pix |-> 0, text |-> {}]

\* cv::imdecode(bytes, cv::IMREAD_COLOR)
imdecode(b) == IF b.fmt = "jpg" /\ b.len > 0
                 THEN [kind |-> "frame", pix |-> b.pix, text |-> b.text]
                 ELSE EmptyMat

\* The largest payload one UDP/IPv4 datagram carries.
MaxDatagramPayload == kMaxPacketBufferSize - 20 - 8

\* Payloads a remote host can put into a datagram: nothing, bytes that are
\* no picture, and the encodings of the frames that fit a datagram.
JunkBytes == [len |-> 7, fmt |-> "junk", pix |-> 0, text |-> {}]

WirePayloads == {EmptyBytes, JunkBytes} \cup
    {b \in {imencode(CameraFrame(p, {"green"})) : p \in 1..MaxPix} :
        b.len <= MaxDatagramPayload}

(***************************************************************************)
(* State.                                                                  *)
(***************************************************************************)
VARIABLES
    rproc,        \* receiver process: "running" or "exited"
    rexit,        \* its exit code (0 while it runs)
    rmain,        \* main(): 1..3 next thread to start, 4 in system("pause")
    wsaCalls,     \* number of WSAStartup calls made by the receiver process
    kWindowName_id, \* the globals kWindowName_id1..3
    pc,           \* per receive() thread: its position
    wname,        \* per thread: the kWindowName_id argument (by value)
    socket_handle,\* per thread: ReceiverSocket::socket_handle_
    bindOk,       \* per thread: what BindSocketToListen returned
    bound,        \* per thread: the socket is bound to its port
    SelectRcv,    \* per thread: select()'s result in the last GetPacket
    num_bytes,    \* per thread: recvfrom()'s result in the last GetPacket
    data,         \* per thread: the vector GetPacket returned
    video_frame,  \* per thread: protocol_data.video_frame_
    shown,        \* per thread: pictures given to cv::imshow this iteration
    window,       \* GUI windows of the receiver process: name -> picture
    sockbuf,      \* per thread: datagrams queued on the bound socket
    netDown,      \* the receiving host's network subsystem has failed
    nRemote,      \* datagrams remote hosts have sent so far
    lostWhile,    \* per thread: picture on display when a datagram of the
                  \* stream was lost and no frame was displayed since
    sproc,        \* sender process: "running" or "exited"
    sexit,        \* its exit code (0 while it runs)
    smain,        \* sender main(): 1..3 next thread, 4 in system("pause")
    swsaCalls,    \* number of WSAStartup calls made by the sender process
    spc,          \* per sendN() thread: its position
    send_handle,  \* per thread: SenderSocket::socket_handle_
    capture_open, \* per thread: capture_.isOpened()
    send_frame,   \* per thread: protocol_data.video_frame_
    packet,       \* per thread: the vector last handed to SendPacket
    sendto_ret,   \* per thread: what the last sendto() returned
    nFrames,      \* frames the cameras have delivered so far
    sendSeq,      \* per sendN() thread: how many frames it has captured and
                  \* how many times it has called SendPacket
    tick          \* per receive() thread: parity of the loop iterations
                  \* counted by CountedIteration

vars == <<rproc, rexit, rmain, wsaCalls, kWindowName_id, pc, wname,
          socket_handle, bindOk, bound, SelectRcv, num_bytes, data, video_frame,
          shown, window, sockbuf, netDown, nRemote, lostWhile,
          sproc, sexit, smain, swsaCalls, spc, send_handle, capture_open,
          send_frame, packet, sendto_ret, nFrames, sendSeq, tick>>

NoMat == [kind |-> "none", pix |-> 0, text |-> {}]

NoWindows == [n \in {} |-> NoMat]

\* What the window named n shows in w (NoMat when there is no such window).
ShowsIn(w, n) == IF n \in DOMAIN w THEN w[n] ELSE NoMat

Shows(n) == ShowsIn(window, n)

\* Mutant: the picture is drawn in every window of the process.
imshow_AllWindows(w, n, m) == [k \in DOMAIN w \cup {n} |-> m]

\* cv::namedWindow(name); cv::imshow(name, picture) on the windows w
imshow(w, n, m) == [k \in DOMAIN w \cup {n} |-> IF k = n THEN m ELSE w[k]]

Init ==
    /\ rproc = "running"
    /\ rexit = 0
    /\ rmain = 1
    /\ wsaCalls = 0
    /\ kWindowName_id = [s \in Sessions |-> kWindowName]
    /\ pc = [s \in Sessions |-> "unstarted"]
    /\ wname = [s \in Sessions |-> ""]
    /\ socket_handle = [s \in Sessions |-> "none"]
    /\ bindOk = [s \in Sessions |-> "none"]
    /\ bound = [s \in Sessions |-> FALSE]
    /\ SelectRcv = [s \in Sessions |-> 0]
    /\ num_bytes = [s \in Sessions |-> 0]
    /\ data = [s \in Sessions |-> EmptyBytes]
    /\ video_frame = [s \in Sessions |-> EmptyMat]
    /\ shown = [s \in Sessions |-> <<>>]
    /\ window = NoWindows
    /\ sockbuf = [s \in Sessions |-> <<>>]
    /\ netDown = FALSE
    /\ nRemote = 0
    /\ lostWhile = [s \in Sessions |-> NoMat]
    /\ sproc = "running"
    /\ sexit = 0
    /\ smain = 1
    /\ swsaCalls = 0
    /\ spc = [s \in Sessions |-> "unstarted"]
    /\ send_handle = [s \in Sessions |-> "none"]
    /\ capture_open = [s \in Sessions |-> FALSE]
    /\ send_frame = [s \in Sessions |-> EmptyMat]
    /\ packet = [s \in Sessions |-> EmptyBytes]
    /\ sendto_ret = [s \in Sessions |-> 0]
    /\ nFrames = 0
    /\ sendSeq = [s \in Sessions |-> [captured |-> 0, sent |-> 0]]
    /\ tick = [s \in Sessions |-> 0]

\* The state of the sender process.
senderVars == <<sproc, sexit, smain, swsaCalls, spc, send_handle,
                capture_open, send_frame, packet, sendto_ret, nFrames,
                sendSeq>>

\* What the actions of the sender process and of the network leave alone.
otherVars == <<senderVars, tick>>

\* What a receive() thread and its socket own.
loopVars == <<SelectRcv, num_bytes, data, video_frame, shown, window,
              sockbuf, lostWhile>>

(***************************************************************************)
(* Receiver process: main().                                               *)
(***************************************************************************)
\* kWindowName_idN = kWindowName_idN + " " + to_string(N-1);
\* std::thread receiveN(receive, port, kWindowName_idN);
MainStartThread ==
    /\ rproc = "running"
    /\ rmain \in Sessions
    /\ LET s == rmain
           name == kWindowName_id[s] \o " " \o ToString(s - 1)
       IN /\ kWindowName_id' = [kWindowName_id EXCEPT ![s] = name]
          /\ wname' = [wname EXCEPT ![s] = name]
          /\ pc' = [pc EXCEPT ![s] = "wsa"]
    /\ rmain' = rmain + 1
    /\ UNCHANGED <<rproc, rexit, wsaCalls, socket_handle, bindOk, bound,
                   netDown, nRemote>>
    /\ UNCHANGED otherVars
    /\ UNCHANGED loopVars

\* The process ends: its threads stop where they are, its memory and its
\* windows are released and its sockets are closed.
ProcessExit(code) ==
    /\ rproc' = "exited"
    /\ rexit' = code
    /\ bound' = [s \in Sessions |-> FALSE]
    /\ sockbuf' = [s \in Sessions |-> <<>>]
    /\ SelectRcv' = [s \in Sessions |-> 0]
    /\ num_bytes' = [s \in Sessions |-> 0]
    /\ data' = [s \in Sessions |-> EmptyBytes]
    /\ video_frame' = [s \in Sessions |-> EmptyMat]
    /\ shown' = [s \in Sessions |-> <<>>]
    /\ window' = NoWindows
    /\ lostWhile' = [s \in Sessions |-> NoMat]

\* system("pause") returns (a key was pressed); return 0 ends the process
\* and with it the detached threads.
MainReturn ==
    /\ rproc = "running"
    /\ rmain = NumSessions + 1
    /\ ProcessExit(0)
    /\ UNCHANGED <<rmain, wsaCalls, kWindowName_id, pc, wname, socket_handle,
                   bindOk, netDown, nRemote>>
    /\ UNCHANGED otherVars

(***************************************************************************)
(* Receiver process: receive(port, kWindowName_id), one thread each.       *)
(***************************************************************************)
\* Mutant: receive() goes on to its socket without calling WSAStartup.
RecvWSAStartup_Skipped(s) ==
    /\ rproc = "running"
    /\ pc[s] = "wsa"
    /\ pc' = [pc EXCEPT ![s] = "socket"]
    /\ UNCHANGED <<rproc, rexit, rmain, wsaCalls, kWindowName_id, wname,
                   socket_handle, bindOk, bound, netDown, nRemote>>
    /\ UNCHANGED loopVars
    /\ UNCHANGED otherVars

\* if (WSAStartup(sockVersion, &wsaData) != 0) exit(0);
RecvWSAStartup(s) ==
    /\ rproc = "running"
    /\ pc[s] = "wsa"
    /\ wsaCalls' = wsaCalls + 1
    /\ \/ /\ pc' = [pc EXCEPT ![s] = "socket"]
          /\ UNCHANGED <<rproc, rexit, bound>>
          /\ UNCHANGED loopVars
       \/ /\ ProcessExit(0)
          /\ UNCHANGED pc
    /\ UNCHANGED <<rmain, kWindowName_id, wname, socket_handle, bindOk,
                   netDown, nRemote>>
    /\ UNCHANGED otherVars

\* const ReceiverSocket socket(port): socket_handle_ = socket(...), which
\* yields a handle or INVALID_SOCKET.
ReceiverSocketCtor(s) ==
    /\ rproc = "running"
    /\ pc[s] = "socket"
    /\ \E h \in {"valid", "INVALID_SOCKET"} :
          socket_handle' = [socket_handle EXCEPT ![s] = h]
    /\ pc' = [pc EXCEPT ![s] = "bind"]
    /\ UNCHANGED <<rproc, rexit, rmain, wsaCalls, kWindowName_id, wname,
                   bindOk, bound, netDown, nRemote>>
    /\ UNCHANGED otherVars
    /\ UNCHANGED loopVars

\* Mutant: receive() goes on to its loop when BindSocketToListen()
\* returned false.
OnBindFailed_GoesOn(s) ==
    /\ pc' = [pc EXCEPT ![s] = "loop"]
    /\ UNCHANGED <<rproc, rexit, bound>>
    /\ UNCHANGED loopVars

\* receive() when BindSocketToListen() returned false:
\* std::cerr << "Could not bind socket."; exit(-1);
OnBindFailed(s) ==
    /\ ProcessExit(-1)
    /\ UNCHANGED pc

\* receive() when BindSocketToListen() returned true: go on to the loop.
OnBound(s) ==
    /\ pc' = [pc EXCEPT ![s] = "loop"]
    /\ UNCHANGED <<rproc, rexit>>
    /\ UNCHANGED loopVars

\* if (!socket.BindSocketToListen()) {...}: the socket was not created, the
\* ioctlsocket call fails (exit(-1) inside BindSocketToListen), bind() fails
\* (the port is taken), or the socket is bound.
BindSocketToListen(s) ==
    /\ rproc = "running"
    /\ pc[s] = "bind"
    /\ \/ /\ socket_handle[s] = "INVALID_SOCKET"
          /\ bindOk' = [bindOk EXCEPT ![s] = "false"]
          /\ OnBindFailed(s)
       \/ /\ socket_handle[s] = "valid"
          /\ ProcessExit(-1)
          /\ UNCHANGED <<pc, bindOk>>
       \/ /\ socket_handle[s] = "valid"
          /\ bindOk' = [bindOk EXCEPT ![s] = "false"]
          /\ OnBindFailed(s)
       \/ /\ socket_handle[s] = "valid"
          /\ bindOk' = [bindOk EXCEPT ![s] = "true"]
          /\ bound' = [bound EXCEPT ![s] = TRUE]
          /\ OnBound(s)
    /\ UNCHANGED <<rmain, wsaCalls, kWindowName_id, wname, socket_handle,
                   netDown, nRemote>>
    /\ UNCHANGED otherVars

\* recvfrom(socket_handle_, buffer_, kMaxPacketBufferSize, ...) on datagram
\* payload d: the number of bytes received, or SOCKET_ERROR when the
\* datagram does not fit the buffer.
recvfrom(d) == IF d.len > kMaxPacketBufferSize THEN SOCKET_ERROR ELSE d.len

\* std::vector<unsigned char> data;
\* if (num_bytes > 0) data.insert(data.end(), &buffer_[0], &buffer_[num_bytes]);
PacketData(d, n) == IF n > 0 THEN d ELSE EmptyBytes

\* Mutant: the branch shows our_team.jpg before it reads the datagram.
ReceiveOne_AlsoFallback(q) ==
    LET n == recvfrom(Head(q))
    IN [sel |-> 1, n |-> n, data |-> PacketData(Head(q), n),
        fallback |-> TRUE, queue |-> Tail(q)]

\* Mutant: the branch takes the datagram that arrived last.
ReceiveOne_Newest(q) ==
    LET n == recvfrom(q[Len(q)])
    IN [sel |-> 1, n |-> n, data |-> PacketData(q[Len(q)], n),
        fallback |-> FALSE, queue |-> SubSeq(q, 1, Len(q) - 1)]

\* Mutant: the branch reads the socket until it is empty and returns the
\* bytes of the last datagram.
ReceiveOne_Drain(q) ==
    LET n == recvfrom(q[Len(q)])
    IN [sel |-> 1, n |-> n, data |-> PacketData(q[Len(q)], n),
        fallback |-> FALSE, queue |-> <<>>]

\* The FD_ISSET branch of GetPacket with queue q on the socket: one
\* recvfrom, which takes the datagram at the head of the queue.
ReceiveOne(q) ==
    LET n == recvfrom(Head(q))
    IN [sel |-> 1, n |-> n, data |-> PacketData(Head(q), n),
        fallback |-> FALSE, queue |-> Tail(q)]

\* Mutant: the else branch returns the empty vector without showing
\* our_team.jpg.
ShowFallback_NoPicture(q, sel) ==
    [sel |-> sel, n |-> 0, data |-> EmptyBytes, fallback |-> FALSE, queue |-> q]

\* The else branch of GetPacket: our_team.jpg is shown, an empty vector
\* returned.  sel is what select() returned.
ShowFallback(q, sel) ==
    [sel |-> sel, n |-> 0, data |-> EmptyBytes, fallback |-> TRUE, queue |-> q]

\* The FD_ISSET branch after a failed select(): recvfrom fails as well.
ReceiveFailed(q) ==
    [sel |-> SOCKET_ERROR, n |-> SOCKET_ERROR,
     data |-> PacketData(EmptyBytes, SOCKET_ERROR), fallback |-> FALSE,
     queue |-> q]

\* ReceiverSocket::GetPacket(kWindowName) with queue q on the socket:
\* select() with a timeout of one second, then recvfrom() if the socket is
\* readable, else the fallback picture.  The result names select()'s and
\* recvfrom()'s return values, the vector returned, whether the fallback
\* picture was shown, and the queue left.  After a failed select() the
\* descriptor set is unspecified, so either branch may be taken.
GetPacket(q, down) ==
    IF down THEN {ReceiveFailed(q), ShowFallback(q, SOCKET_ERROR)}
    ELSE IF q # <<>> THEN {ReceiveOne(q)}
    ELSE {ShowFallback(q, 0)}

\* Mutant: UnpackData stores the decoded frame only when it is a picture,
\* and the picture of an earlier datagram otherwise.
UnpackData_KeepsLast(raw_bytes) ==
    IF imdecode(raw_bytes).kind = "frame"
      THEN imdecode(raw_bytes)
      ELSE CameraFrame(1, {"green", "red"})

\* BasicProtocolData::UnpackData(raw_bytes): the frame decoded from the
\* bytes, or an empty frame for an empty vector.
UnpackData(raw_bytes) == IF raw_bytes # EmptyBytes THEN imdecode(raw_bytes)
                                                   ELSE EmptyMat

\* cv::putText(frame_image_, <wall-clock time>, ..., red)
PutTimeText(m) == [m EXCEPT !.text = @ \cup {"red"}]

\* Mutant: Display writes the time on the frame and does not show it.
Display_WithoutShow(frame) == <<>>

\* Mutant: Display without the check for an empty frame.
Display_ShowsEmpty(frame) == <<PutTimeText(frame)>>

\* VideoFrame::Display(kWindowName): the pictures handed to cv::imshow,
\* none for an empty frame.
Display(frame) == IF frame.kind = "empty" THEN <<>>
                                          ELSE <<PutTimeText(frame)>>

\* The pictures of sequence ms shown one after the other in window n of w.
ShowAll(w, n, ms) == IF ms = <<>> THEN w ELSE imshow(w, n, ms[Len(ms)])

\* Mutant: the loop is left once a frame has been displayed.
LoopBreaksWhenDone(s) ==
    /\ pc' = [pc EXCEPT ![s] =
                 IF video_frame'[s].kind = "frame" THEN "done" ELSE @]
    /\ UNCHANGED <<rproc, rexit, bound>>

\* Mutant: the loop is left when GetPacket returned an empty vector.
LoopBreaksOnEmpty(s) ==
    /\ pc' = [pc EXCEPT ![s] = IF data'[s] = EmptyBytes THEN "done" ELSE @]
    /\ UNCHANGED <<rproc, rexit, bound>>

\* while (true): whatever the iteration did, the next one follows.
LoopContinues(s) == UNCHANGED <<rproc, rexit, bound, pc>>

\* One iteration of the loop of receive():
\*   protocol_data.UnpackData(socket.GetPacket(kWindowName_id));
\*   protocol_data.GetImage().Display(kWindowName_id);
\* The frame displayed is a copy of video_frame_ that shares its pixels, so
\* the text put on it lands in video_frame_ as well.
Iterate(s) ==
    /\ rproc = "running"
    /\ pc[s] = "loop"
    /\ \E r \in GetPacket(sockbuf[s], netDown) :
          LET frame == UnpackData(r.data)
              pics == (IF r.fallback THEN <<OurTeamPicture>> ELSE <<>>)
                         \o Display(frame)
          IN /\ SelectRcv' = [SelectRcv EXCEPT ![s] = r.sel]
             /\ num_bytes' = [num_bytes EXCEPT ![s] = r.n]
             /\ data' = [data EXCEPT ![s] = r.data]
             /\ sockbuf' = [sockbuf EXCEPT ![s] = r.queue]
             /\ video_frame' = [video_frame EXCEPT ![s] =
                   IF Display(frame) = <<>> THEN frame ELSE Display(frame)[1]]
             /\ shown' = [shown EXCEPT ![s] = pics]
             /\ window' = ShowAll(window, wname[s], pics)
             /\ lostWhile' = [lostWhile EXCEPT ![s] =
                   IF \E i \in 1..Len(pics) : pics[i].kind = "frame"
                     THEN NoMat ELSE @]
    /\ LoopContinues(s)
    /\ UNCHANGED <<rmain, wsaCalls, kWindowName_id, wname, socket_handle,
                   bindOk, netDown, nRemote>>
    /\ UNCHANGED senderVars

\* The loop iteration as a step of the thread.
ReceiveIteration(s) == Iterate(s) /\ UNCHANGED tick

\* The same loop iteration, counted: two iterations that leave the rest of
\* the state as it was are told apart by tick.
CountedIteration(s) == Iterate(s) /\ tick' = [tick EXCEPT ![s] = 1 - @]

(***************************************************************************)
(* The network towards the receiver.  A datagram sent to a port of the     *)
(* receiving host is lost (on the path, or because no socket is bound to   *)
(* the port or the socket's queue is full), or it is queued on the socket  *)
(* bound to the port; it may overtake datagrams that are still queued.     *)
(* The time a datagram spends in flight is not modelled.                   *)
(***************************************************************************)
recvProcVars == <<rproc, rexit, rmain, wsaCalls, kWindowName_id, pc, wname,
                  socket_handle, bindOk, bound, SelectRcv, num_bytes, data,
                  video_frame, shown, window>>

\* Sequence q with x put in after its first i elements.
InsertAt(q, i, x) == SubSeq(q, 1, i) \o <<x>> \o SubSeq(q, i + 1, Len(q))

\* The datagram with payload b reaches the socket of session s.
Arrive(s, b) ==
    /\ rproc = "running"
    /\ bound[s]
    /\ ~netDown
    /\ \E i \in 0..Len(sockbuf[s]) :
          sockbuf' = [sockbuf EXCEPT ![s] = InsertAt(sockbuf[s], i, b)]
    /\ UNCHANGED lostWhile

\* The datagram with payload b, sent to the port of session s, is lost.
Lose(s, b) ==
    /\ lostWhile' = [lostWhile EXCEPT ![s] =
          IF b.fmt = "jpg" /\ Shows(wname[s]).kind = "frame"
            THEN Shows(wname[s]) ELSE @]
    /\ UNCHANGED sockbuf

\* A remote host sends one datagram to the port of session s.
RemoteSend(s, b) ==
    /\ rproc = "running"
    /\ nRemote < MaxDatagrams
    /\ nRemote' = nRemote + 1
    /\ Arrive(s, b) \/ Lose(s, b)
    /\ UNCHANGED netDown
    /\ UNCHANGED recvProcVars
    /\ UNCHANGED otherVars

\* The network subsystem of the receiving host fails: from here on select()
\* and recvfrom() report SOCKET_ERROR.
NetFail ==
    /\ rproc = "running"
    /\ ~netDown
    /\ netDown' = TRUE
    /\ UNCHANGED <<sockbuf, nRemote, lostWhile>>
    /\ UNCHANGED recvProcVars
    /\ UNCHANGED otherVars

(***************************************************************************)
(* Sender process: main() and the threads send1(), send2(), send3().       *)
(***************************************************************************)
\* send1 sends to port 6000, send2 to 5000, send3 to 4000
SenderPort(s) == 7000 - 1000 * s

\* The receive() thread that listens on the port sendN() sends to.
PeerOf(s) == CHOOSE r \in Sessions : ReceiverPort(r) = SenderPort(s)

recvSideVars == <<rproc, rexit, rmain, wsaCalls, kWindowName_id, pc, wname,
                  socket_handle, bindOk, bound, SelectRcv, num_bytes, data,
                  video_frame, shown, window, netDown, nRemote, tick>>

\* std::thread sendN(sendN);
SMainStartThread ==
    /\ sproc = "running"
    /\ smain \in Sessions
    /\ spc' = [spc EXCEPT ![smain] = "wsa"]
    /\ smain' = smain + 1
    /\ UNCHANGED <<sproc, sexit, swsaCalls, send_handle, capture_open,
                   send_frame, packet, sendto_ret, nFrames, sendSeq>>
    /\ UNCHANGED <<sockbuf, lostWhile>>
    /\ UNCHANGED recvSideVars

\* The sender process ends: its threads stop, its memory is released.
SenderExit(code) ==
    /\ sproc' = "exited"
    /\ sexit' = code
    /\ send_frame' = [s \in Sessions |-> EmptyMat]
    /\ packet' = [s \in Sessions |-> EmptyBytes]
    /\ sendto_ret' = [s \in Sessions |-> 0]
    /\ sendSeq' = [s \in Sessions |-> [captured |-> 0, sent |-> 0]]

\* system("pause") returns; return 0 ends the process and its threads.
SMainReturn ==
    /\ sproc = "running"
    /\ smain = NumSessions + 1
    /\ SenderExit(0)
    /\ UNCHANGED <<smain, swsaCalls, spc, send_handle, capture_open, nFrames>>
    /\ UNCHANGED <<sockbuf, lostWhile>>
    /\ UNCHANGED recvSideVars

\* if (WSAStartup(socketVersion, &wsaData) != 0) exit(0);
SendWSAStartup(s) ==
    /\ sproc = "running"
    /\ spc[s] = "wsa"
    /\ swsaCalls' = swsaCalls + 1
    /\ \/ /\ spc' = [spc EXCEPT ![s] = "socket"]
          /\ UNCHANGED <<sproc, sexit, send_frame, packet, sendto_ret,
                         sendSeq>>
       \/ /\ SenderExit(0)
          /\ UNCHANGED spc
    /\ UNCHANGED <<smain, send_handle, capture_open, nFrames>>
    /\ UNCHANGED <<sockbuf, lostWhile>>
    /\ UNCHANGED recvSideVars

\* const SenderSocket socket(ip_address, port): socket_handle_ = socket(...)
\* yields a handle or INVALID_SOCKET; nothing checks it.
SenderSocketCtor(s) ==
    /\ sproc = "running"
    /\ spc[s] = "socket"
    /\ \E h \in {"valid", "INVALID_SOCKET"} :
          send_handle' = [send_handle EXCEPT ![s] = h]
    /\ spc' = [spc EXCEPT ![s] = "camera"]
    /\ UNCHANGED <<sproc, sexit, smain, swsaCalls, capture_open, send_frame,
                   packet, sendto_ret, nFrames, sendSeq>>
    /\ UNCHANGED <<sockbuf, lostWhile>>
    /\ UNCHANGED recvSideVars

\* VideoCapture video_capture(false, 0.6, N-1): capture_(cv::VideoCapture(N-1))
\* opens the camera, or does not; BasicProtocolData protocol_data.
VideoCaptureCtor(s) ==
    /\ sproc = "running"
    /\ spc[s] = "camera"
    /\ \E o \in BOOLEAN : capture_open' = [capture_open EXCEPT ![s] = o]
    /\ spc' = [spc EXCEPT ![s] = "capture"]
    /\ UNCHANGED <<sproc, sexit, smain, swsaCalls, send_handle, send_frame,
                   packet, sendto_ret, nFrames, sendSeq>>
    /\ UNCHANGED <<sockbuf, lostWhile>>
    /\ UNCHANGED recvSideVars

\* VideoCapture::GetFrameFromCamera(): the frames it can return with the
\* camera open or not; p is the picture the camera takes.  The picture is
\* resized and the time is written on it in green.
GetFrameFromCamera(open, p) ==
    IF ~open THEN EmptyMat ELSE CameraFrame(p, {"green"})

\* An exception of the OpenCV library leaves the thread function: the
\* runtime calls std::terminate and the process aborts.
Abort == SenderExit(3)

\* protocol_data.SetImage(video_capture.GetFrameFromCamera());
\* With the camera open, the camera delivers a picture, or it delivers
\* none and cv::resize throws on the empty image.
CaptureFrame(s) ==
    /\ sproc = "running"
    /\ spc[s] = "capture"
    /\ nFrames < MaxFrames
    /\ nFrames' = nFrames + 1
    /\ \/ /\ \E p \in 1..MaxPix :
                send_frame' = [send_frame EXCEPT ![s] =
                                  GetFrameFromCamera(capture_open[s], p)]
          /\ spc' = [spc EXCEPT ![s] = "send"]
          /\ sendSeq' = [sendSeq EXCEPT ![s].captured = @ + 1]
          /\ UNCHANGED <<sproc, sexit, packet, sendto_ret>>
       \/ /\ capture_open[s]
          /\ Abort
          /\ UNCHANGED spc
    /\ UNCHANGED <<smain, swsaCalls, send_handle, capture_open>>
    /\ UNCHANGED <<sockbuf, lostWhile>>
    /\ UNCHANGED recvSideVars

\* Mutant: PackageData puts a header of four bytes before the JPEG bytes.
PackageData_WithHeader(frame) ==
    [imencode(frame) EXCEPT !.len = @ + 4, !.fmt = "header+jpg"]

\* BasicProtocolData::PackageData(): video_frame_.GetJPEG()
PackageData(frame) == imencode(frame)

\* Mutant: sendto accepts a message of any length.
sendto_NoLimit(handle, bytes, ok) ==
    IF handle # "valid" \/ ~ok THEN SOCKET_ERROR ELSE bytes.len

\* sendto(socket_handle_, data.data(), data.size(), ...): the values it can
\* return.  It fails on an invalid socket and on a message beyond what a
\* datagram carries, and it can fail for a reason of the host (ok = FALSE);
\* otherwise it returns the number of bytes sent.
sendto(handle, bytes, ok) ==
    IF handle # "valid" \/ bytes.len > MaxDatagramPayload \/ ~ok
      THEN SOCKET_ERROR
      ELSE bytes.len

\* SenderSocket::SendPacket(data): one sendto, its result dropped.  The
\* datagram, if one left, is lost or reaches the receiver's socket.
SendPacket(s, bytes) ==
    \E ok \in BOOLEAN :
       LET r == sendto(send_handle[s], bytes, ok)
       IN /\ packet' = [packet EXCEPT ![s] = bytes]
          /\ sendto_ret' = [sendto_ret EXCEPT ![s] = r]
          /\ IF r = SOCKET_ERROR
               THEN UNCHANGED <<sockbuf, lostWhile>>
               ELSE Arrive(PeerOf(s), bytes) \/ Lose(PeerOf(s), bytes)

\* Mutant: the frame is sent again when sendto failed.
SendLoopRetries(s) ==
    /\ spc' = [spc EXCEPT ![s] =
                  IF sendto_ret'[s] = SOCKET_ERROR THEN "send" ELSE "capture"]
    /\ UNCHANGED <<sproc, sexit>>

\* Mutant: the thread returns when sendto failed.
SendLoopStopsOnError(s) ==
    /\ spc' = [spc EXCEPT ![s] =
                  IF sendto_ret'[s] = SOCKET_ERROR THEN "done" ELSE "capture"]
    /\ UNCHANGED <<sproc, sexit>>

\* while (true): whatever sendto returned, the next capture follows.
SendLoopContinues(s) ==
    /\ spc' = [spc EXCEPT ![s] = "capture"]
    /\ UNCHANGED <<sproc, sexit>>

\* socket.SendPacket(protocol_data.PackageData());
\* cv::imencode on the empty frame of a camera that is not open returns
\* an empty buffer or throws, depending on the library.
SendFrame(s) ==
    /\ sproc = "running"
    /\ spc[s] = "send"
    /\ \/ /\ SendPacket(s, PackageData(send_frame[s]))
          /\ sendSeq' = [sendSeq EXCEPT ![s].sent = @ + 1]
          /\ SendLoopContinues(s)
          /\ UNCHANGED send_frame
       \/ /\ send_frame[s] = EmptyMat
          /\ Abort
          /\ UNCHANGED <<spc, sockbuf, lostWhile>>
    /\ UNCHANGED <<smain, swsaCalls, send_handle, capture_open, nFrames>>
    /\ UNCHANGED recvSideVars

\* The receiver program and the hosts that send to it, on a machine whose
\* network subsystem stays up (SpecStream has the failing one).
Next ==
    \/ MainStartThread
    \/ MainReturn
    \/ \E s \in Sessions : RecvWSAStartup(s)
    \/ \E s \in Sessions : ReceiverSocketCtor(s)
    \/ \E s \in Sessions : BindSocketToListen(s)
    \/ \E s \in Sessions : ReceiveIteration(s)
    \/ \E s \in Sessions, b \in WirePayloads : RemoteSend(s, b)

Spec == Init /\ [][Next]_vars

\* The receiver program with its loop iterations counted and its threads
\* scheduled fairly: a thread that can run its loop eventually does.
\* Remote hosts send to the port of the first session only; the channels
\* of the other sessions never deliver a datagram.
NextLive ==
    \/ MainStartThread
    \/ MainReturn
    \/ \E s \in Sessions : RecvWSAStartup(s)
    \/ \E s \in Sessions : ReceiverSocketCtor(s)
    \/ \E s \in Sessions : BindSocketToListen(s)
    \/ \E s \in Sessions : CountedIteration(s)
    \/ \E b \in WirePayloads : RemoteSend(1, b)

SpecLive == Init /\ [][NextLive]_vars
                 /\ \A s \in Sessions : WF_vars(CountedIteration(s))

\* The sender program.
NextSend ==
    \/ SMainStartThread
    \/ SMainReturn
    \/ \E s \in Sessions : SendWSAStartup(s)
    \/ \E s \in Sessions : SenderSocketCtor(s)
    \/ \E s \in Sessions : VideoCaptureCtor(s)
    \/ \E s \in Sessions : CaptureFrame(s)
    \/ \E s \in Sessions : SendFrame(s)

SpecSend == Init /\ [][NextSend]_vars

\* One stream end to end: send1() and the receive() thread on its port,
\* with the threads of the other streams not scheduled.
StreamSender == 1

StreamReceiver == PeerOf(StreamSender)

NextStream ==
    \/ SMainStartThread
    \/ SMainReturn
    \/ SendWSAStartup(StreamSender)
    \/ SenderSocketCtor(StreamSender)
    \/ VideoCaptureCtor(StreamSender)
    \/ CaptureFrame(StreamSender)
    \/ SendFrame(StreamSender)
    \/ MainStartThread
    \/ MainReturn
    \/ RecvWSAStartup(StreamReceiver)
    \/ ReceiverSocketCtor(StreamReceiver)
    \/ BindSocketToListen(StreamReceiver)
    \/ ReceiveIteration(StreamReceiver)
    \/ NetFail

SpecStream == Init /\ [][NextStream]_vars

(***************************************************************************)
(* Session states.                                                         *)
(***************************************************************************)
\* A receiver session is Running while its thread is in the loop of
\* receive() and the process lives.
Running(s) == rproc = "running" /\ pc[s] = "loop"

\* A sender session is Running while its thread is in the loop of sendN().
SenderRunning(s) == sproc = "running" /\ spc[s] \in {"capture", "send"}

(***************************************************************************)
(* C1.  A Bind failure in one receiver session terminates only that        *)
(* session: every other session whose own Bind succeeded is Running.       *)
(* The code ends the whole process instead (exit(-1) in receive()), so     *)
(* this statement is violated.                                             *)
(***************************************************************************)
C1_BindFailureIsolated ==
    \A a \in Sessions : \A b \in Sessions \ {a} :
        (bindOk[a] = "false" /\ bindOk[b] = "true") => Running(b)

\* select() on the socket of session s finds nothing within its second.
TimesOut(s) == ~netDown /\ sockbuf[s] = <<>>

\* An iteration that times out returns no data and shows our_team.jpg.
C2_TimeoutStep ==
    \A s \in Sessions :
        (CountedIteration(s) /\ TimesOut(s)) =>
            /\ SelectRcv'[s] = 0
            /\ data'[s] = EmptyBytes
            /\ shown'[s] = <<OurTeamPicture>>
            /\ ShowsIn(window', wname[s]) = OurTeamPicture

(***************************************************************************)
(* C2.  Every Receive that times out returns no data and the fallback      *)
(* picture is shown in that session's window in the same iteration; and    *)
(* a session that stays Running on a channel that has stopped delivering   *)
(* datagrams runs, again and again, an iteration that times out and        *)
(* shows the fallback picture.                                             *)
(***************************************************************************)
C2_TimeoutFallback ==
    /\ [][C2_TimeoutStep]_vars
    /\ \A s \in Sessions :
          \/ []<>(~(Running(s) /\ sockbuf[s] = <<>>))
          \/ []<><<CountedIteration(s) /\ TimesOut(s)
                   /\ ShowsIn(window', wname[s]) = OurTeamPicture>>_vars

\* Two iterations of a session timed out on a channel that never carried a
\* datagram, and the fallback picture is on display.
C2_Witness ==
    \E s \in Sessions :
        /\ Running(s) /\ nRemote = 0 /\ ~netDown
        /\ tick[s] = 0 /\ SelectRcv[s] = 0
        /\ shown[s] = <<OurTeamPicture>>
        /\ Shows(wname[s]) = OurTeamPicture

\* The next datagram on the socket of session s has no payload.
ZeroLengthArrives(s) ==
    ~netDown /\ sockbuf[s] # <<>> /\ Head(sockbuf[s]).len = 0

(***************************************************************************)
(* C3.  An iteration of a Running session that receives no frame, because  *)
(* Receive timed out or because the datagram that arrived has a payload    *)
(* of zero bytes, shows the fallback picture in the session's window.      *)
(* The code shows the fallback picture on the timeout only, so this        *)
(* statement is violated.                                                  *)
(***************************************************************************)
C3_SameOutcome ==
    [][\A s \in Sessions :
          (ReceiveIteration(s) /\ (TimesOut(s) \/ ZeroLengthArrives(s))) =>
              /\ shown'[s] = <<OurTeamPicture>>
              /\ ShowsIn(window', wname[s]) = OurTeamPicture]_vars

(***************************************************************************)
(* C4.  A timeout never ends a session: a loop iteration, whether its      *)
(* Receive timed out or returned a datagram, leaves the session that ran   *)
(* it and every other Running session Running.                             *)
(***************************************************************************)
C4_TimeoutKeepsRunning ==
    [][\A s \in Sessions :
          ReceiveIteration(s) =>
              /\ Running(s)'
              /\ \A t \in Sessions : Running(t) => Running(t)'
              /\ TimesOut(s) => (SelectRcv'[s] = 0 /\ pc'[s] = "loop")]_vars

\* The last iteration of a Running session timed out, the fallback picture
\* is on display, and a datagram is waiting for the next iteration.
C4_Witness ==
    \E s \in Sessions :
        /\ Running(s)
        /\ SelectRcv[s] = 0 /\ shown[s] = <<OurTeamPicture>>
        /\ sockbuf[s] # <<>>

(***************************************************************************)
(* C5 as written.  A channel failure of Send or of Receive is fatal to     *)
(* the session: once sendto, select or recvfrom has reported an error the  *)
(* session is no longer Running.  The code ignores all three results, so   *)
(* this statement is violated.                                             *)
(***************************************************************************)
C5_ChannelFailureFatal ==
    /\ \A s \in Sessions :
          sendto_ret[s] = SOCKET_ERROR => ~SenderRunning(s)
    /\ \A s \in Sessions :
          (SelectRcv[s] = SOCKET_ERROR \/ num_bytes[s] = SOCKET_ERROR) =>
              ~Running(s)

(***************************************************************************)
(* C5 amended.  A channel failure of Send or of Receive is not fatal: the  *)
(* step in which sendto fails leaves the sender session Running at its     *)
(* next capture, and the iteration in which select or recvfrom fails       *)
(* leaves the receiver session Running, with an empty payload.             *)
(***************************************************************************)
C5_ChannelFailureIgnored ==
    [][/\ \A s \in Sessions :
             (SendFrame(s) /\ sendto_ret'[s] = SOCKET_ERROR) =>
                 (SenderRunning(s)' /\ spc'[s] = "capture")
       /\ \A s \in Sessions :
             (ReceiveIteration(s) /\
              (SelectRcv'[s] = SOCKET_ERROR \/ num_bytes'[s] = SOCKET_ERROR)) =>
                 (Running(s)' /\ data'[s] = EmptyBytes)]_vars

\* sendto failed in the sender session and select failed in the receiver
\* session of the stream, and both sessions are Running.
C5_Witness ==
    /\ sendto_ret[StreamSender] = SOCKET_ERROR
    /\ SenderRunning(StreamSender)
    /\ SelectRcv[StreamReceiver] = SOCKET_ERROR
    /\ Running(StreamReceiver)

(***************************************************************************)
(* C6 as written.  When a datagram carrying a frame is lost, the frame     *)
(* that was on display stays on display until a later frame is received.   *)
(* The next Receive times out and puts the fallback picture in the         *)
(* window, so this statement is violated.                                  *)
(***************************************************************************)
C6_LostKeepsPrevious ==
    \A s \in Sessions :
        lostWhile[s] # NoMat => Shows(wname[s]) = lostWhile[s]

(***************************************************************************)
(* C6 amended.  When a datagram carrying a frame is lost, the window       *)
(* shows the frame that was on display, or the fallback picture that a     *)
(* Receive timing out has put in its place, until a later frame is         *)
(* received; the receiver is told nothing and stays Running.               *)
(***************************************************************************)
C6_LostKeepsPreviousOrFallback ==
    /\ [](\A s \in Sessions :
            lostWhile[s] # NoMat =>
                /\ Shows(wname[s]) \in {lostWhile[s], OurTeamPicture}
                /\ Running(s))
    /\ [][\A s \in Sessions : \A b \in WirePayloads :
             (RemoteSend(s, b) /\ sockbuf' = sockbuf) =>
                 /\ window' = window
                 /\ UNCHANGED <<data, video_frame, shown, pc, rproc>>]_vars

\* A frame was lost while an earlier frame was on display, and the earlier
\* frame is still on display.
C6_Witness ==
    \E s \in Sessions :
        /\ lostWhile[s] # NoMat
        /\ lostWhile[s].kind = "frame"
        /\ Shows(wname[s]) = lostWhile[s]
        /\ Running(s)

(***************************************************************************)
(* C7.  Every Receive that finds datagrams waiting returns the payload of  *)
(* exactly one of them, the first, and leaves the others waiting in their  *)
(* order: k datagrams are returned by k calls, one per call.               *)
(***************************************************************************)
C7_OneDatagramPerReceive ==
    [][\A s \in Sessions :
          (ReceiveIteration(s) /\ ~netDown /\ sockbuf[s] # <<>>) =>
              /\ data'[s] = Head(sockbuf[s])
              /\ num_bytes'[s] = Head(sockbuf[s]).len
              /\ sockbuf'[s] = Tail(sockbuf[s])]_vars

\* A Receive returned the first of two waiting datagrams and the second is
\* still waiting.
C7_Witness ==
    \E s \in Sessions :
        /\ Running(s)
        /\ SelectRcv[s] = 1 /\ data[s] # EmptyBytes
        /\ num_bytes[s] = data[s].len
        /\ Len(sockbuf[s]) = 1
        /\ nRemote = 2

(***************************************************************************)
(* C8.  Package and Unpack are the identity on the encoded frame: the      *)
(* bytes handed to Send are exactly the bytes Encode produced, the         *)
(* datagram put on the channel carries exactly those bytes, and the bytes  *)
(* handed to Decode are exactly the payload Receive returned.              *)
(***************************************************************************)
C8_PackageUnpackIdentity ==
    [][/\ (SendFrame(StreamSender) /\ sproc' = "running") =>
             /\ packet'[StreamSender] = imencode(send_frame[StreamSender])
             /\ sockbuf' # sockbuf =>
                   \E i \in 0..Len(sockbuf[StreamReceiver]) :
                       sockbuf'[StreamReceiver] =
                           InsertAt(sockbuf[StreamReceiver], i,
                                    imencode(send_frame[StreamSender]))
       /\ (ReceiveIteration(StreamReceiver) /\ ~netDown
           /\ sockbuf[StreamReceiver] # <<>>) =>
             /\ data'[StreamReceiver] = Head(sockbuf[StreamReceiver])
             /\ video_frame'[StreamReceiver] \in
                   {imdecode(data'[StreamReceiver]),
                    PutTimeText(imdecode(data'[StreamReceiver]))}]_vars

\* The sender encoded and sent a camera frame, and the receiver decoded
\* the same picture from the payload it received.
C8_Witness ==
    /\ packet[StreamSender] = imencode(send_frame[StreamSender])
    /\ packet[StreamSender].fmt = "jpg"
    /\ sendto_ret[StreamSender] = packet[StreamSender].len
    /\ data[StreamReceiver] = packet[StreamSender]
    /\ video_frame[StreamReceiver].kind = "frame"
    /\ video_frame[StreamReceiver].pix = send_frame[StreamSender].pix

(***************************************************************************)
(* C9.  Unpack of an empty message yields the empty image and Display of   *)
(* the empty image does nothing: an iteration that receives a datagram of  *)
(* zero bytes shows nothing and leaves every window as it was, however     *)
(* often it happens.                                                       *)
(***************************************************************************)
C9_EmptyMessageNoOp ==
    /\ [](UnpackData(EmptyBytes) = EmptyMat /\ Display(EmptyMat) = <<>>)
    /\ [][\A s \in Sessions :
             (ReceiveIteration(s) /\ ZeroLengthArrives(s)) =>
                 /\ video_frame'[s] = UnpackData(EmptyBytes)
                 /\ shown'[s] = Display(EmptyMat)
                 /\ window' = window
                 /\ Running(s)']_vars

\* A session took a datagram of zero bytes while a decoded frame was on
\* display; the frame is still on display.
C9_Witness ==
    \E s \in Sessions :
        /\ Running(s)
        /\ SelectRcv[s] = 1 /\ num_bytes[s] = 0
        /\ video_frame[s] = EmptyMat /\ shown[s] = <<>>
        /\ Shows(wname[s]).kind = "frame"

\* The JPEG encoding of picture m does not fit the receive buffer.
Oversize(m) == imencode(m).len > kMaxPacketBufferSize

(***************************************************************************)
(* C10.  An encoded frame longer than the receive buffer is dropped at     *)
(* the sender: sendto fails, no datagram goes on the channel, the sender   *)
(* goes on to its next capture, and no part of the frame ever reaches      *)
(* Decode.                                                                 *)
(***************************************************************************)
C10_OversizeDropped ==
    /\ [](/\ \A i \in 1..Len(sockbuf[StreamReceiver]) :
               sockbuf[StreamReceiver][i].len <= MaxDatagramPayload
          /\ data[StreamReceiver].len <= kMaxPacketBufferSize
          /\ video_frame[StreamReceiver].kind = "frame" =>
                 ~Oversize(CameraFrame(video_frame[StreamReceiver].pix, {})))
    /\ [][(SendFrame(StreamSender) /\ Oversize(send_frame[StreamSender])) =>
             /\ sendto_ret'[StreamSender] = SOCKET_ERROR
             /\ sockbuf' = sockbuf
             /\ SenderRunning(StreamSender)'
             /\ spc'[StreamSender] = "capture"]_vars

\* The sender's first frame was too long and sendto failed; the sender has
\* captured its second frame and is about to send it.
C10_Witness ==
    /\ SenderRunning(StreamSender)
    /\ nFrames = 2 /\ spc[StreamSender] = "send"
    /\ sendto_ret[StreamSender] = SOCKET_ERROR
    /\ packet[StreamSender].len > kMaxPacketBufferSize
    /\ send_handle[StreamSender] = "valid" /\ ~netDown

\* The frame that a loop iteration leaves in the slot for payload b: the
\* picture decoded from b with the time written on it, or the empty frame.
SlotFor(b) ==
    IF imdecode(b).kind = "frame" THEN PutTimeText(imdecode(b)) ELSE EmptyMat

(***************************************************************************)
(* C11.  A receiver session has one slot for the last decoded frame and    *)
(* no history: every iteration that receives a datagram overwrites the     *)
(* slot with the frame decoded from that datagram and nothing else, so     *)
(* the slot always holds what the payload returned by the latest Receive   *)
(* decodes to.                                                             *)
(***************************************************************************)
C11_SingleSlot ==
    /\ [](\A s \in Sessions : video_frame[s] = SlotFor(data[s]))
    /\ [][\A s \in Sessions :
             (ReceiveIteration(s) /\ ~netDown /\ sockbuf[s] # <<>>) =>
                 /\ video_frame'[s] = SlotFor(Head(sockbuf[s]))
                 /\ \A t \in Sessions \ {s} :
                       video_frame'[t] = video_frame[t]]_vars

\* A frame was received and displayed; the datagram received after it was
\* no picture and the slot, overwritten, is empty.
C11_Witness ==
    \E s \in Sessions :
        /\ Running(s)
        /\ nRemote = 2 /\ sockbuf[s] = <<>>
        /\ data[s] = JunkBytes
        /\ video_frame[s] = EmptyMat
        /\ Shows(wname[s]).kind = "frame"

\* The next datagram on the socket of session s is no picture.
MalformedArrives(s) ==
    ~netDown /\ sockbuf[s] # <<>> /\ Head(sockbuf[s]) = JunkBytes

(***************************************************************************)
(* C12.  A payload that cannot be decoded is absorbed: Decode yields the   *)
(* empty image, the iteration shows nothing and changes no window, and     *)
(* the session stays Running with the datagrams behind it still queued     *)
(* for the next iterations.                                                *)
(***************************************************************************)
C12_MalformedAbsorbed ==
    [][\A s \in Sessions :
          (ReceiveIteration(s) /\ MalformedArrives(s)) =>
              /\ data'[s] = JunkBytes
              /\ video_frame'[s] = EmptyMat
              /\ shown'[s] = <<>>
              /\ window' = window
              /\ sockbuf'[s] = Tail(sockbuf[s])
              /\ Running(s)' /\ rexit' = 0]_vars

\* A session has absorbed a payload that is no picture and is Running
\* with an encoded frame next in its queue.
C12_Witness ==
    \E s \in Sessions :
        /\ Running(s)
        /\ data[s] = JunkBytes /\ num_bytes[s] = JunkBytes.len
        /\ video_frame[s] = EmptyMat /\ shown[s] = <<>>
        /\ Len(sockbuf[s]) = 1 /\ Head(sockbuf[s]).fmt = "jpg"

(***************************************************************************)
(* C13.  When the capture source cannot produce a frame, the sender puts   *)
(* an empty frame in its place and goes on: the capture step leaves the    *)
(* session Running at its Send, and the Send of the empty frame leaves it  *)
(* Running at its next capture.  When the open camera delivers no picture  *)
(* cv::resize throws, and cv::imencode may throw on the empty frame of a   *)
(* camera that did not open; the process aborts, so this statement is      *)
(* violated.                                                               *)
(***************************************************************************)
C13_CaptureFailureContinues ==
    [][\A s \in Sessions :
          /\ CaptureFrame(s) =>
                (SenderRunning(s)' /\ spc'[s] = "send")
          /\ (SendFrame(s) /\ send_frame[s] = EmptyMat) =>
                (SenderRunning(s)' /\ spc'[s] = "capture")]_vars

(***************************************************************************)
(* C14.  When Encode yields no bytes the sender has nothing to send: the   *)
(* iteration issues no Send and puts no datagram on the channel.  The      *)
(* code calls SendPacket with the empty buffer and sendto sends a          *)
(* datagram without payload, so this statement is violated.                *)
(***************************************************************************)
C14_EmptyNotSent ==
    [][(/\ SendFrame(StreamSender)
        /\ PackageData(send_frame[StreamSender]) = EmptyBytes
        /\ sproc' = "running") =>
           /\ sendSeq'[StreamSender].sent = sendSeq[StreamSender].sent
           /\ sockbuf' = sockbuf]_vars

(***************************************************************************)
(* C15.  Within a sender session frames are sent in capture order, each    *)
(* at most once, with no retry: the i-th SendPacket call carries the       *)
(* encoding of the i-th captured frame, and it is made before the          *)
(* (i+1)-th frame is captured.                                             *)
(***************************************************************************)
C15_CaptureOrder ==
    /\ [](\A s \in Sessions :
            /\ sendSeq[s].sent <= sendSeq[s].captured
            /\ sendSeq[s].captured <= sendSeq[s].sent + 1
            /\ sproc = "running" =>
                  (spc[s] = "send" <=>
                      sendSeq[s].captured = sendSeq[s].sent + 1))
    /\ [][\A s \in Sessions :
             /\ (CaptureFrame(s) /\ sproc' = "running") =>
                   /\ sendSeq[s].sent = sendSeq[s].captured
                   /\ sendSeq'[s].captured = sendSeq[s].captured + 1
                   /\ sendSeq'[s].sent = sendSeq[s].sent
             /\ (SendFrame(s) /\ sproc' = "running") =>
                   /\ sendSeq'[s].sent = sendSeq[s].captured
                   /\ sendSeq'[s].captured = sendSeq[s].captured
                   /\ packet'[s] = imencode(send_frame[s])
                   /\ send_frame'[s] = send_frame[s]
             /\ (send_frame'[s] # send_frame[s] /\ sproc' = "running") =>
                   sendSeq'[s].captured = sendSeq[s].captured + 1]_vars

\* A sender session has sent its first frame and captured its second,
\* which it is about to send.
C15_Witness ==
    \E s \in Sessions :
        /\ SenderRunning(s) /\ spc[s] = "send"
        /\ sendSeq[s] = [captured |-> 2, sent |-> 1]
        /\ packet[s].fmt = "jpg"
        /\ send_frame[s].kind = "frame"

(***************************************************************************)
(* C19.  A sender session whose socket could not be created ends without   *)
(* entering Running: it captures no frame and calls SendPacket never.      *)
(* The constructor of SenderSocket does not test the handle and sendN()    *)
(* goes on into its loop, so this statement is violated.                   *)
(***************************************************************************)
C19_ConnectFailureTerminates ==
    [][\A s \in Sessions :
          send_handle[s] = "INVALID_SOCKET" =>
              ~(CaptureFrame(s) \/ SendFrame(s))]_vars

\* How far a receive() thread has come: not started, before WSAStartup,
\* before the socket, before the bind, in the loop.
PcRank(p) ==
    CASE p = "unstarted" -> 0
      [] p = "wsa" -> 1
      [] p = "socket" -> 2
      [] p = "bind" -> 3
      [] p = "loop" -> 4
      [] OTHER -> 5

\* The state of receiver session s: Idle (0) until its bind has succeeded,
\* Bound and Running (1) from then on, Terminated (2) once the process
\* has exited or the thread has left its loop.
SessionRank(s) ==
    IF rproc = "exited" \/ PcRank(pc[s]) = 5 THEN 2
    ELSE IF pc[s] = "loop" THEN 1
    ELSE 0

(***************************************************************************)
(* C16.  A receiver session goes from Idle to Bound and Running to         *)
(* Terminated and never back: its thread advances one position at a        *)
(* time, it is in the loop only with a bind that succeeded, it makes no    *)
(* Receive call after a bind that failed, and nothing changes once it is   *)
(* Terminated.                                                             *)
(***************************************************************************)
C16_SessionLifecycle ==
    /\ [](\A s \in Sessions :
            /\ pc[s] = "loop" =>
                  (bindOk[s] = "true" /\ socket_handle[s] = "valid")
            /\ Running(s) => bound[s]
            /\ bindOk[s] = "false" => (rproc = "exited" /\ pc[s] = "bind"))
    /\ [][\A s \in Sessions :
             /\ SessionRank(s)' >= SessionRank(s)
             /\ PcRank(pc'[s]) \in {PcRank(pc[s]), PcRank(pc[s]) + 1}
             /\ ReceiveIteration(s) =>
                   (bindOk[s] = "true" /\ bound[s] /\ SessionRank(s) = 1)
             /\ SessionRank(s) = 2 =>
                   UNCHANGED <<rproc, rexit, pc, bindOk, bound, data,
                               video_frame, window>>]_vars

\* One session bound its port and entered its loop; the bind of another
\* failed, which ended the process with both sessions Terminated.
C16_Witness ==
    \E s \in Sessions : \E t \in Sessions \ {s} :
        /\ rproc = "exited" /\ rexit = -1
        /\ bindOk[s] = "true" /\ pc[s] = "loop"
        /\ bindOk[t] = "false" /\ pc[t] = "bind"
        /\ SessionRank(s) = 2 /\ SessionRank(t) = 2

\* A step of the receive() thread of session s.
ThreadStep(s) ==
    \/ RecvWSAStartup(s)
    \/ ReceiverSocketCtor(s)
    \/ BindSocketToListen(s)
    \/ ReceiveIteration(s)

(***************************************************************************)
(* C17.  Receiver sessions share no mutable state: their ports and their   *)
(* window names are pairwise distinct, the window-name globals are         *)
(* written by main() alone, and a step of one session's thread that        *)
(* leaves the process running changes neither the socket, nor the queue,   *)
(* nor the frame slot, nor the window, nor the position of another         *)
(* session.                                                                *)
(***************************************************************************)
C17_SessionsIsolated ==
    /\ [](\A a \in Sessions : \A b \in Sessions \ {a} :
            /\ ReceiverPort(a) # ReceiverPort(b)
            /\ pc[a] # "unstarted" =>
                  (wname[a] = WindowNameFor(a) /\ wname[a] # wname[b]))
    /\ [][/\ kWindowName_id' # kWindowName_id => MainStartThread
          /\ \A s \in Sessions :
                (ThreadStep(s) /\ rproc' = "running") =>
                    \A t \in Sessions \ {s} :
                        /\ socket_handle'[t] = socket_handle[t]
                        /\ bound'[t] = bound[t]
                        /\ sockbuf'[t] = sockbuf[t]
                        /\ data'[t] = data[t]
                        /\ video_frame'[t] = video_frame[t]
                        /\ ShowsIn(window', wname[t]) = Shows(wname[t])
                        /\ pc'[t] = pc[t]]_vars

\* Two sessions are Running side by side: one shows a frame it decoded,
\* the other the fallback picture.
C17_Witness ==
    \E a \in Sessions : \E b \in Sessions \ {a} :
        /\ Running(a) /\ Running(b)
        /\ video_frame[a].kind = "frame"
        /\ Shows(wname[a]) = video_frame[a]
        /\ video_frame[b] = EmptyMat
        /\ Shows(wname[b]) = OurTeamPicture

C20_NoCancellation ==
    /\ [](\A s \in Sessions : PcRank(pc[s]) # 5 /\ spc[s] # "done")
    /\ [][\A s \in Sessions :
             /\ (Running(s) /\ ~Running(s)') => rproc' = "exited"
             /\ (SenderRunning(s) /\ ~SenderRunning(s)') => sproc' = "exited"
             /\ ReceiveIteration(s) => Running(s)'
             /\ (SendFrame(s) /\ sproc' = "running") => SenderRunning(s)']_vars

\* The receiver session was in its loop when main() returned and ended
\* the process; the sender session has sent a frame and is Running.
C20_Witness ==
    /\ rproc = "exited" /\ rexit = 0
    /\ pc[StreamReceiver] = "loop"
    /\ SenderRunning(StreamSender)
    /\ sendSeq[StreamSender].sent >= 1

\* The next datagram on the socket of session s carries an encoded frame.
FrameArrives(s) ==
    ~netDown /\ sockbuf[s] # <<>> /\ Head(sockbuf[s]).fmt = "jpg"

\* The picture a loop iteration displays for the encoded frame b.
Displayed(b) == PutTimeText(imdecode(b))

(***************************************************************************)
(* C21.  The receiver recovers from an idle period: when its window shows  *)
(* the fallback picture and an encoded frame arrives, the iteration that   *)
(* receives the frame decodes it and shows it in the window in place of    *)
(* the fallback picture; and in a session that stays Running a datagram    *)
(* does not wait on the socket for ever.                                   *)
(***************************************************************************)
C21_RecoversFromIdle ==
    /\ [][\A s \in Sessions :
             (CountedIteration(s) /\ FrameArrives(s)
              /\ Shows(wname[s]) = OurTeamPicture) =>
                 /\ data'[s] = Head(sockbuf[s])
                 /\ shown'[s] = <<Displayed(Head(sockbuf[s]))>>
                 /\ ShowsIn(window', wname[s]) = Displayed(Head(sockbuf[s]))
                 /\ Running(s)']_vars
    /\ \A s \in Sessions : []<>(~(Running(s) /\ sockbuf[s] # <<>>))

\* The only datagram ever sent carried a frame; the session received and
\* displayed it in an iteration that followed at least one timeout.
C21_Witness ==
    \E s \in Sessions :
        /\ Running(s)
        /\ nRemote = 1 /\ tick[s] = 0
        /\ SelectRcv[s] = 1 /\ data[s].fmt = "jpg"
        /\ shown[s] = <<Displayed(data[s])>>
        /\ Shows(wname[s]) = Displayed(data[s])

(***************************************************************************)
(* C22.  A loop iteration hands at most one picture to the display: the    *)
(* fallback picture on a timeout, the decoded frame when an encoded frame  *)
(* was received, nothing otherwise, and never both; on a timeout and on a  *)
(* payload that is empty or no picture the frame slot is set to the empty  *)
(* frame, so no frame of an earlier iteration is shown again.              *)
(***************************************************************************)
C22_OnePicturePerIteration ==
    /\ [](\A s \in Sessions : Len(shown[s]) <= 1)
    /\ [][\A s \in Sessions :
             (ReceiveIteration(s) /\ ~netDown) =>
                 /\ TimesOut(s) =>
                       (shown'[s] = <<OurTeamPicture>>
                        /\ video_frame'[s] = EmptyMat)
                 /\ FrameArrives(s) =>
                       (shown'[s] = <<Displayed(Head(sockbuf[s]))>>
                        /\ video_frame'[s] = Displayed(Head(sockbuf[s])))
                 /\ (ZeroLengthArrives(s) \/ MalformedArrives(s)) =>
                       (shown'[s] = <<>> /\ video_frame'[s] = EmptyMat)]_vars

\* A session displayed a frame, a later frame was lost, and the iteration
\* that then timed out showed the fallback picture alone, with the slot
\* empty.
C22_Witness ==
    \E s \in Sessions :
        /\ Running(s)
        /\ lostWhile[s] # NoMat /\ lostWhile[s].kind = "frame"
        /\ SelectRcv[s] = 0
        /\ shown[s] = <<OurTeamPicture>>
        /\ video_frame[s] = EmptyMat
        /\ Shows(wname[s]) = OurTeamPicture

(***************************************************************************)
(* C23.  A session displays frames in the order in which it takes their    *)
(* datagrams from the socket, each at most once: a frame is put in a       *)
(* session's window only by an iteration of that session, the frame is     *)
(* the one decoded from the datagram that iteration takes, which is the    *)
(* first of the queue, and the datagram leaves the queue with it.          *)
(***************************************************************************)
C23_DisplayInReceiveOrder ==
    [][\A s \in Sessions :
          /\ ReceiveIteration(s) =>
                \A i \in 1..Len(shown'[s]) :
                    shown'[s][i].kind = "frame" =>
                        /\ FrameArrives(s)
                        /\ shown'[s][i] = Displayed(Head(sockbuf[s]))
                        /\ data'[s] = Head(sockbuf[s])
                        /\ sockbuf'[s] = Tail(sockbuf[s])
          /\ (ShowsIn(window', wname[s]) # Shows(wname[s])
              /\ ShowsIn(window', wname[s]).kind = "frame") =>
                (ReceiveIteration(s) /\ FrameArrives(s))]_vars

\* Two datagrams were queued for a session, an encoded frame before a
\* payload that is no picture: the frame was taken first and is displayed,
\* the other payload is still queued.
C23_Witness ==
    \E s \in Sessions :
        /\ Running(s)
        /\ nRemote = 2
        /\ data[s].fmt = "jpg"
        /\ shown[s] = <<Displayed(data[s])>>
        /\ Shows(wname[s]) = Displayed(data[s])
        /\ sockbuf[s] = <<JunkBytes>>

====
